---- MODULE Spec2Model ----
(***************************************************************************)
(* A model of @aglabo/agla-error-core: the AglaError base class, its       *)
(* options normalisation (_AglaErrorOptions), its accessors and the        *)
(* non-mutating chain operation, together with the two concrete subclasses *)
(* of the repository (BasicAglaError, TestAglaError).                      *)
(*                                                                         *)
(* JavaScript values are records [k, s, n]: k is the kind, s the           *)
(* characters of a string, n a number or, for an object reference, the     *)
(* address of the object in the heap.  Reference equality (===, toBe) is   *)
(* equality of these records.  Objects live in the heap; an object that    *)
(* two references share is one heap cell, so an in-place mutation is seen  *)
(* through both.                                                           *)
(***************************************************************************)
EXTENDS Integers, Sequences, FiniteSets, TLC

(* ---------------------------------------------------------------- bounds *)

\* Number of AglaError instances (constructed or chained) a run of
\* constructor and chain calls may create.
MaxErrs == 3

\* Number of AglaError instances a run of the constructor-only specification
\* may create.
MaxNew == 1

\* Number of AglaError instances a run that also replaces and mutates
\* contexts may create.
MaxLive == 2

\* Number of AglaError instances a run of every operation, toString and
\* toJSON included, may create.
MaxAll == 2

\* Number of AglaError instances a run that links instances to one another
\* and serialises them may create.
MaxLoop == 3

\* Number of AglaError instances a run with a validating subtype may create.
MaxGuarded == 2

\* Number of instances of the README's NetworkError a run may create.
MaxReadme == 3

(* ------------------------------------------------------- JavaScript values *)

Undefined == [k |-> "undefined", s |-> <<>>, n |-> 0]
Null == [k |-> "null", s |-> <<>>, n |-> 0]
Str(chars) == [k |-> "string", s |-> chars, n |-> 0]
Num(i) == [k |-> "number", s |-> <<>>, n |-> i]
Ref(addr) == [k |-> "object", s |-> <<>>, n |-> addr]
Bool(b) == [k |-> "boolean", s |-> <<>>, n |-> IF b THEN 1 ELSE 0]
BigInt(i) == [k |-> "bigint", s |-> <<>>, n |-> i]
Symbol(description) == [k |-> "symbol", s |-> description, n |-> 0]
\* () => {}: a function value (it occurs only as an argument of the guards).
Func == [k |-> "function", s |-> <<>>, n |-> 0]
\* The numbers that are no integers carry their name.
NaN == [k |-> "number", s |-> <<"N", "a", "N">>, n |-> 0]
Infinity(sign) ==
  [k |-> "number", s |-> <<"I", "n", "f", "i", "n", "i", "t", "y">>,
   n |-> sign]

\* ToBoolean: undefined, null, '', 0, NaN, 0n and false are falsy; every
\* object, function and symbol is truthy.
Truthy(v) ==
  CASE v.k = "undefined" -> FALSE
    [] v.k = "null" -> FALSE
    [] v.k = "string" -> v.s # <<>>
    [] v.k = "number" -> v.n # 0
    [] v.k = "bigint" -> v.n # 0
    [] v.k = "boolean" -> v.n # 0
    [] OTHER -> TRUE

\* typeof v: the kind, except that typeof null is 'object'.
typeof(v) == IF v.k = "null" THEN "object" ELSE v.k

StartsWith(str, prefix) ==
  /\ Len(str) >= Len(prefix)
  /\ SubSeq(str, 1, Len(prefix)) = prefix

(* ------------------------------------------------------------ heap objects *)

NoProps == [key \in {} |-> Undefined]

NoOptions ==
  [errorType |-> <<>>, code |-> Undefined, severity |-> Undefined,
   timestamp |-> Undefined, context |-> Undefined, cause |-> Undefined]

\* An unallocated cell.
NoObject ==
  [kind |-> "none", props |-> NoProps, invalid |-> FALSE, cls |-> "",
   message |-> <<>>, name |-> "", options |-> NoOptions,
   hasCause |-> FALSE, cause |-> Undefined]

\* An object literal { key: value, ... }.
PlainObject(props) == [NoObject EXCEPT !.kind = "Object", !.props = props]

\* new Date(...): invalid is TRUE for new Date('invalid-date').
DateObject(invalid) == [NoObject EXCEPT !.kind = "Date", !.invalid = invalid]

\* new Error(message): a platform error.
ErrorObject(message) ==
  [NoObject EXCEPT !.kind = "Error", !.cls = "Error", !.message = message,
                   !.name = "Error"]

\* What a call threw: the name and the message of the error.  The message
\* of a TypeError of the platform is the engine's and is left empty.
NoFailure == [name |-> "", message |-> <<>>]
TypeErrorThrown == [name |-> "TypeError", message |-> <<>>]
ErrorThrown(message) == [name |-> "Error", message |-> message]

\* key in object, for a reference to a plain object.
HasKey(H, v, key) == key \in DOMAIN H[v.n].props

\* object.key: undefined when the key is absent.
Get(H, v, key) == IF HasKey(H, v, key) THEN H[v.n].props[key] ELSE Undefined

(* ----------------------------------------------------------------- strings *)

\* Strings are sequences of characters.
TEST_TAG == <<"[", "T", "E", "S", "T", "]">>
MSG == <<"m">>
MSG_TAGGED == TEST_TAG \o <<" ", "m">>
ET_A == <<"E">>
ET_B == <<"F">>
CODE_1 == <<"C", "1">>
SEV_ERROR == <<"e", "r", "r", "o", "r">>
SEV_CRITICAL == <<"c", "r", "i", "t", "i", "c", "a", "l">>
LEGACY_CAUSE == <<"O", "r", "i", "g">>
USER_1 == <<"1", "2", "3">>
USER_2 == <<"4", "5", "6">>
OP_1 == <<"o", "p">>
BAD_OPT == <<"o", "o", "p", "s">>
ROOT_CAUSE == <<"R", "o", "o", "t">>
MSG_LINES == <<"a", "\n", "b">>
CIRCULAR_NAME == <<"c", "i", "r", "c", "u", "l", "a", "r">>
NETWORK_TYPE ==
  <<"N", "e", "t", "w", "o", "r", "k", "E", "r", "r", "o", "r">>
NETWORK_CODE ==
  <<"N", "E", "T", "W", "O", "R", "K", "_", "E", "R", "R", "O", "R">>
FETCH_MSG ==
  <<"F", "a", "i", "l", "e", "d", " ", "t", "o", " ", "f", "e", "t", "c",
    "h", " ", "d", "a", "t", "a">>

LowerCase ==
  <<"a", "b", "c", "d", "e", "f", "g", "h", "i", "j", "k", "l", "m", "n",
    "o", "p", "q", "r", "s", "t", "u", "v", "w", "x", "y", "z">>

UpperCase ==
  <<"A", "B", "C", "D", "E", "F", "G", "H", "I", "J", "K", "L", "M", "N",
    "O", "P", "Q", "R", "S", "T", "U", "V", "W", "X", "Y", "Z">>

\* The character of the sequence to at the place char has in the sequence
\* of, char itself when it is not in of.
Translate(char, of, to) ==
  IF \E i \in 1 .. Len(of) : of[i] = char
  THEN to[CHOOSE i \in 1 .. Len(of) : of[i] = char]
  ELSE char

toUpperCase(chars) ==
  [i \in 1 .. Len(chars) |-> Translate(chars[i], LowerCase, UpperCase)]

toLowerCase(chars) ==
  [i \in 1 .. Len(chars) |-> Translate(chars[i], UpperCase, LowerCase)]

(* ------------------------------------------------------- error severity *)

AG_ERROR_SEVERITY_VALUES ==
  {<<"f", "a", "t", "a", "l">>, SEV_ERROR,
   <<"w", "a", "r", "n", "i", "n", "g">>, <<"i", "n", "f", "o">>}

\* A validator that ignores case.
AG_isValidErrorSeverity_IgnoresCase(value) ==
  typeof(value) = "string" /\ toLowerCase(value.s) \in AG_ERROR_SEVERITY_VALUES

\* typeof value === 'string' && AG_ERROR_SEVERITY_VALUES.includes(value)
AG_isValidErrorSeverity(value) ==
  typeof(value) = "string" /\ value.s \in AG_ERROR_SEVERITY_VALUES

(* ---------------------------------------------------------- context guards *)

\* The characters of the names typeof returns.
TypeName ==
  [undefined |-> <<"u", "n", "d", "e", "f", "i", "n", "e", "d">>,
   object |-> <<"o", "b", "j", "e", "c", "t">>,
   string |-> <<"s", "t", "r", "i", "n", "g">>,
   number |-> <<"n", "u", "m", "b", "e", "r">>,
   boolean |-> <<"b", "o", "o", "l", "e", "a", "n">>,
   bigint |-> <<"b", "i", "g", "i", "n", "t">>,
   symbol |-> <<"s", "y", "m", "b", "o", "l">>,
   function |-> <<"f", "u", "n", "c", "t", "i", "o", "n">>]

\* 'Invalid AglaErrorContext: expected object, got '
GUARD_MESSAGE ==
  <<"I", "n", "v", "a", "l", "i", "d", " ", "A", "g", "l", "a", "E", "r",
    "r", "o", "r", "C", "o", "n", "t", "e", "x", "t", ":", " ", "e", "x",
    "p", "e", "c", "t", "e", "d", " ", "o", "b", "j", "e", "c", "t", ",",
    " ", "g", "o", "t", " ">>

\* A check by typeof alone.
isValidAglaErrorContext_TypeofOnly(value) == typeof(value) = "object"

\* typeof value === 'object' && value !== null
isValidAglaErrorContext(value) == typeof(value) = "object" /\ value # Null

\* The result is [threw, value, message]: the value returned, or the
\* message of the Error thrown.
guardAglaErrorContext(value) ==
  IF ~isValidAglaErrorContext(value)
  THEN [threw |-> TRUE, value |-> Undefined,
        message |-> GUARD_MESSAGE \o TypeName[typeof(value)]]
  ELSE [threw |-> FALSE, value |-> value, message |-> <<>>]

(* ------------------------------------------------- _AglaErrorOptions (class) *)

StructuredKeys == {"code", "severity", "timestamp", "context", "cause"}

\* The fields of a structured bag, read key by key.
_AglaErrorOptions_Fields(errorType, options, H) ==
  [errorType |-> errorType,
   code |-> Get(H, options, "code"),
   severity |-> Get(H, options, "severity"),
   timestamp |-> Get(H, options, "timestamp"),
   context |-> Get(H, options, "context"),
   cause |-> Get(H, options, "cause")]

\* The key test without 'cause': a bag holding cause alone counts as a bare
\* context.
_AglaErrorOptions_NoCauseKey(errorType, options, H) ==
  IF Truthy(options) /\ options.k # "object"
  THEN [threw |-> TRUE, value |-> NoOptions]
  ELSE IF Truthy(options)
          /\ \E key \in {"code", "severity", "timestamp", "context"} :
                HasKey(H, options, key)
  THEN [threw |-> FALSE, value |-> _AglaErrorOptions_Fields(errorType, options, H)]
  ELSE [threw |-> FALSE,
        value |-> [NoOptions EXCEPT !.errorType = errorType, !.context = options]]

\* A constructor that validates: a severity the validator rejects is
\* dropped and an invalid date is refused.
_AglaErrorOptions_Validating(errorType, options, H) ==
  IF Truthy(options) /\ options.k # "object"
  THEN [threw |-> TRUE, value |-> NoOptions]
  ELSE IF Truthy(options) /\ \E key \in StructuredKeys : HasKey(H, options, key)
  THEN LET f == _AglaErrorOptions_Fields(errorType, options, H)
       IN [threw |-> f.timestamp.k = "object" /\ H[f.timestamp.n].invalid,
           value |-> [f EXCEPT !.severity =
                        IF AG_isValidErrorSeverity(f.severity)
                        THEN f.severity ELSE Undefined]]
  ELSE [threw |-> FALSE,
        value |-> [NoOptions EXCEPT !.errorType = errorType, !.context = options]]

\* A structured branch that keeps the whole bag as the context.
_AglaErrorOptions_ContextIsBag(errorType, options, H) ==
  IF Truthy(options) /\ options.k # "object"
  THEN [threw |-> TRUE, value |-> NoOptions]
  ELSE IF Truthy(options) /\ \E key \in StructuredKeys : HasKey(H, options, key)
  THEN [threw |-> FALSE,
        value |-> [_AglaErrorOptions_Fields(errorType, options, H)
                     EXCEPT !.context = options]]
  ELSE [threw |-> FALSE,
        value |-> [NoOptions EXCEPT !.errorType = errorType, !.context = options]]

\* A key test that takes a bag with a key of its own for a bare context: it
\* is structured only when every key is a recognised one.
_AglaErrorOptions_OwnKeysMeanContext(errorType, options, H) ==
  IF Truthy(options) /\ options.k # "object"
  THEN [threw |-> TRUE, value |-> NoOptions]
  ELSE IF /\ Truthy(options)
          /\ \E key \in StructuredKeys : HasKey(H, options, key)
          /\ DOMAIN H[options.n].props \subseteq StructuredKeys
  THEN [threw |-> FALSE, value |-> _AglaErrorOptions_Fields(errorType, options, H)]
  ELSE [threw |-> FALSE,
        value |-> [NoOptions EXCEPT !.errorType = errorType, !.context = options]]

\* new _AglaErrorOptions(errorType, options).  The `in` operator throws a
\* TypeError when its right operand is a primitive; && short-circuits on a
\* falsy options value, so only truthy primitives reach it.
\* The result is [threw, value]: threw is TRUE when the constructor throws.
_AglaErrorOptions(errorType, options, H) ==
  IF Truthy(options) /\ options.k # "object"
  THEN [threw |-> TRUE, value |-> NoOptions]
  ELSE IF Truthy(options) /\ \E key \in StructuredKeys : HasKey(H, options, key)
  THEN [threw |-> FALSE,
        value |-> [errorType |-> errorType,
                   code |-> Get(H, options, "code"),
                   severity |-> Get(H, options, "severity"),
                   timestamp |-> Get(H, options, "timestamp"),
                   context |-> Get(H, options, "context"),
                   cause |-> Get(H, options, "cause")]]
  ELSE [threw |-> FALSE,
        value |-> [NoOptions EXCEPT !.errorType = errorType, !.context = options]]

(* ------------------------------------------------------------ AglaError *)

\* A base constructor that hands the cause option to the platform:
\* super(message, { cause: this._options.cause }).
AglaError_SurfacesCause(cls, errorType, message, options, H) ==
  LET o == _AglaErrorOptions(errorType, options, H)
  IN [threw |-> o.threw,
      failure |-> IF o.threw THEN TypeErrorThrown ELSE NoFailure,
      object |-> [NoObject EXCEPT !.kind = "AglaError", !.cls = cls,
                                  !.message = message, !.name = cls,
                                  !.options = o.value,
                                  !.hasCause = o.value.cause # Undefined,
                                  !.cause = o.value.cause]]

\* A base constructor that names every instance after the base class:
\* this.name = 'AglaError'.
AglaError_NameIsBase(cls, errorType, message, options, H) ==
  LET o == _AglaErrorOptions(errorType, options, H)
  IN [threw |-> o.threw,
      failure |-> IF o.threw THEN TypeErrorThrown ELSE NoFailure,
      object |-> [NoObject EXCEPT !.kind = "AglaError", !.cls = cls,
                                  !.message = message, !.name = "AglaError",
                                  !.options = o.value]]

\* The base constructor, run for the concrete class cls (new.target):
\* super(message); this._options = new _AglaErrorOptions(errorType, options);
\* this.name = this.constructor.name.  The instance has no own cause.
\* The result is [threw, failure, object].
AglaError(cls, errorType, message, options, H) ==
  LET o == _AglaErrorOptions(errorType, options, H)
  IN [threw |-> o.threw,
      failure |-> IF o.threw THEN TypeErrorThrown ELSE NoFailure,
      object |-> [NoObject EXCEPT !.kind = "AglaError", !.cls = cls,
                                  !.message = message, !.name = cls,
                                  !.options = o.value]]

\* class BasicAglaError: forwards its three arguments.
BasicAglaError(errorType, message, options, H) ==
  AglaError("BasicAglaError", errorType, message, options, H)

\* A TestAglaError that prefixes every message: super(errorType,
\* `[TEST] ${message}`, options).
TestAglaError_AlwaysPrefixes(errorType, message, options, H) ==
  AglaError("TestAglaError", errorType, TEST_TAG \o <<" ">> \o message,
            options, H)

\* class TestAglaError: prefixes the message with '[TEST] ' unless it already
\* starts with '[TEST]'.
TestAglaError(errorType, message, options, H) ==
  LET finalMessage == IF StartsWith(message, TEST_TAG)
                      THEN message
                      ELSE TEST_TAG \o <<" ">> \o message
  IN AglaError("TestAglaError", errorType, finalMessage, options, H)

Classes == {"BasicAglaError", "TestAglaError"}

\* A subtype whose constructor validates: it forwards its three arguments
\* and then passes the context it got through guardAglaErrorContext, which
\* throws for a context that is no object.
GuardedAglaError(errorType, message, options, H) ==
  LET base == AglaError("GuardedAglaError", errorType, message, options, H)
      guarded == guardAglaErrorContext(base.object.options.context)
  IN IF ~base.threw /\ guarded.threw
     THEN [base EXCEPT !.threw = TRUE,
                       !.failure = ErrorThrown(guarded.message)]
     ELSE base

\* class NetworkError of the README: constructor(message) passes a fixed
\* type, code and severity to the base constructor:
\* super('NetworkError', message, { code: 'NETWORK_ERROR', severity:
\* AG_ERROR_SEVERITY.ERROR }).  The options literal is a transient object.
NetworkError(message, H) ==
  AglaError("NetworkError", NETWORK_TYPE, message, Ref(0),
            [H EXCEPT ![0] = PlainObject([code |-> Str(NETWORK_CODE),
                                          severity |-> Str(SEV_ERROR)])])

\* new Constructor(errorType, message, options) for the class named cls.
\* NetworkError takes the first argument as its message and ignores the
\* others.
New(cls, errorType, message, options, H) ==
  CASE cls = "NetworkError" -> NetworkError(errorType, H)
    [] cls = "TestAglaError" ->
       TestAglaError(errorType, message, options, H)
    [] cls = "GuardedAglaError" ->
       GuardedAglaError(errorType, message, options, H)
    [] OTHER -> BasicAglaError(errorType, message, options, H)

\* The read accessors.
errorType(H, self) == H[self].options.errorType
code(H, self) == H[self].options.code
severity(H, self) == H[self].options.severity
timestamp(H, self) == H[self].options.timestamp
context(H, self) == H[self].options.context

\* A setter that merges: Object.assign(this._options.context, context).
set_context_Merge(H, self, value) ==
  LET old == H[self].options.context
  IN IF old.k = "object" /\ value.k = "object"
     THEN [H EXCEPT ![old.n].props =
             [key \in DOMAIN H[old.n].props \cup DOMAIN H[value.n].props |->
                IF key \in DOMAIN H[value.n].props
                THEN H[value.n].props[key]
                ELSE H[old.n].props[key]]]
     ELSE [H EXCEPT ![self].options.context = value]

\* A setter that rebuilds the options from the new context:
\* this._options = new _AglaErrorOptions(this.errorType, context).
set_context_Renormalises(H, self, value) ==
  [H EXCEPT ![self].options =
     [_AglaErrorOptions(errorType(H, self), value, H).value
        EXCEPT !.context = value]]

\* A setter on storage that an instance and its copies share: the new
\* context shows through every instance that held the old one.
set_context_Shared(H, self, value) ==
  [a \in DOMAIN H |->
     IF H[a].kind = "AglaError"
        /\ H[a].options.context = H[self].options.context
     THEN [H[a] EXCEPT !.options.context = value]
     ELSE H[a]]

\* The write accessor: set context(context) { this._options.context = context }
set_context(H, self, value) == [H EXCEPT ![self].options.context = value]

\* The cell of transient object literals (garbage once the call returns).
Scratch == 0

\* The copy the variants of chain below build: the receiver's class, type,
\* message and four option fields, with the given cause.
chain_Copy(H, self, cause) ==
  [New(H[self].cls, errorType(H, self), H[self].message, Ref(Scratch),
       [H EXCEPT ![Scratch] = PlainObject([code |-> code(H, self),
                                           severity |-> severity(H, self),
                                           timestamp |-> timestamp(H, self),
                                           context |-> context(H, self)])]
      ).object EXCEPT !.hasCause = TRUE, !.cause = cause]

\* chain as a mutating method: this.cause = cause; return this.
chain_ReturnsThis(H, self, cause, addr) ==
  [threw |-> FALSE,
   heap |-> [H EXCEPT ![self].hasCause = TRUE, ![self].cause = cause],
   ret |-> self]

\* chain that also records the cause on the receiver.
chain_SetsOwnCause(H, self, cause, addr) ==
  [threw |-> FALSE,
   heap |-> [H EXCEPT ![addr] = chain_Copy(H, self, cause),
                      ![self].hasCause = TRUE,
                      ![self].cause = cause],
   ret |-> addr]

\* chain that passes the context alone as the third constructor argument.
chain_LegacyBag(H, self, cause, addr) ==
  LET newError == New(H[self].cls, errorType(H, self), H[self].message,
                      context(H, self), H)
  IN IF newError.threw
     THEN [threw |-> TRUE, failure |-> newError.failure, heap |-> H,
           ret |-> 0]
     ELSE [threw |-> FALSE,
           heap |-> [H EXCEPT ![addr] = [newError.object EXCEPT
                                           !.hasCause = TRUE,
                                           !.cause = cause]],
           ret |-> addr]

\* chain that rejects a cause that is not an object.
chain_RejectsNonError(H, self, cause, addr) ==
  IF cause.k # "object"
  THEN [threw |-> TRUE, failure |-> TypeErrorThrown, heap |-> H, ret |-> 0]
  ELSE [threw |-> FALSE,
        heap |-> [H EXCEPT ![addr] = chain_Copy(H, self, cause)],
        ret |-> addr]

\* chain that keeps the cause the receiver already has.
chain_KeepsFirstCause(H, self, cause, addr) ==
  [threw |-> FALSE,
   heap |-> [H EXCEPT ![addr] = chain_Copy(H, self,
                                           IF H[self].hasCause
                                           THEN H[self].cause
                                           ELSE cause)],
   ret |-> addr]

\* chain that refuses a cause that is the receiver itself.
chain_RejectsSelfCause(H, self, cause, addr) ==
  IF cause = Ref(self)
  THEN [threw |-> TRUE, failure |-> TypeErrorThrown, heap |-> H, ret |-> 0]
  ELSE [threw |-> FALSE,
        heap |-> [H EXCEPT ![addr] = chain_Copy(H, self, cause)],
        ret |-> addr]

\* chain that catches what the constructor throws and throws an error of
\* its own: catch (e) { throw new Error('chain failed') }.
chain_WrapsFailure(H, self, cause, addr) ==
  LET literal == PlainObject([code |-> code(H, self),
                              severity |-> severity(H, self),
                              timestamp |-> timestamp(H, self),
                              context |-> context(H, self)])
      newError == New(H[self].cls, errorType(H, self), H[self].message,
                      Ref(Scratch), [H EXCEPT ![Scratch] = literal])
  IN IF newError.threw
     THEN [threw |-> TRUE,
           failure |-> ErrorThrown(<<"c", "h", "a", "i", "n", " ", "f", "a",
                                     "i", "l", "e", "d">>),
           heap |-> H, ret |-> 0]
     ELSE [threw |-> FALSE,
           heap |-> [H EXCEPT ![addr] = chain_Copy(H, self, cause)],
           ret |-> addr]

\* chain that copies code, severity and timestamp but not the context:
\* the options literal has no context key.
chain_DropsContext(H, self, cause, addr) ==
  LET literal == PlainObject([code |-> code(H, self),
                              severity |-> severity(H, self),
                              timestamp |-> timestamp(H, self)])
      newError == New(H[self].cls, errorType(H, self), H[self].message,
                      Ref(Scratch), [H EXCEPT ![Scratch] = literal])
  IN IF newError.threw
     THEN [threw |-> TRUE, failure |-> newError.failure, heap |-> H,
           ret |-> 0]
     ELSE [threw |-> FALSE,
           heap |-> [H EXCEPT ![addr] = [newError.object EXCEPT
                                           !.hasCause = TRUE,
                                           !.cause = cause]],
           ret |-> addr]

\* chain that passes the options bag only when the receiver has a code, a
\* severity or a timestamp, and otherwise passes the bare context as the
\* third argument, which the constructor then reads as it reads any third
\* argument.
chain_BareContext(H, self, cause, addr) ==
  LET literal == PlainObject([code |-> code(H, self),
                              severity |-> severity(H, self),
                              timestamp |-> timestamp(H, self),
                              context |-> context(H, self)])
      structured == \/ Truthy(code(H, self))
                    \/ Truthy(severity(H, self))
                    \/ Truthy(timestamp(H, self))
      newError == New(H[self].cls, errorType(H, self), H[self].message,
                      IF structured THEN Ref(Scratch) ELSE context(H, self),
                      [H EXCEPT ![Scratch] = literal])
  IN IF newError.threw
     THEN [threw |-> TRUE, failure |-> newError.failure, heap |-> H,
           ret |-> 0]
     ELSE [threw |-> FALSE,
           heap |-> [H EXCEPT ![addr] = [newError.object EXCEPT
                                           !.hasCause = TRUE,
                                           !.cause = cause]],
           ret |-> addr]

\* this.chain(cause), the new instance being allocated at addr.
\* The result is [threw, failure, heap, ret]: ret is the address of the
\* instance returned, failure what the constructor threw (chain has no
\* try/catch around the constructor call).
chain(H, self, cause, addr) ==
  LET literal == PlainObject([code |-> code(H, self),
                              severity |-> severity(H, self),
                              timestamp |-> timestamp(H, self),
                              context |-> context(H, self)])
      newError == New(H[self].cls, errorType(H, self), H[self].message,
                      Ref(Scratch), [H EXCEPT ![Scratch] = literal])
  IN IF newError.threw
     THEN [threw |-> TRUE, failure |-> newError.failure, heap |-> H,
           ret |-> 0]
     ELSE [threw |-> FALSE,
           heap |-> [H EXCEPT ![addr] = [newError.object EXCEPT
                                           !.hasCause = TRUE,
                                           !.cause = cause]],
           ret |-> addr]

(* ---------------------------------------------------------- serialisation *)

\* new Date('2025-08-29T21:42:00Z').toISOString()
DATE_ISO ==
  <<"2", "0", "2", "5", "-", "0", "8", "-", "2", "9", "T", "2", "1", ":",
    "4", "2", ":", "0", "0", ".", "0", "0", "0", "Z">>

\* The property names of the objects of the model, in the order in which the
\* object literals of the code write them (the order JSON.stringify lists
\* them in), and the characters of each name.
KeyOrder ==
  <<"errorType", "message", "code", "severity", "timestamp", "context",
    "cause", "userId", "operation", "name", "self">>

KeyChars ==
  [errorType |-> <<"e", "r", "r", "o", "r", "T", "y", "p", "e">>,
   message |-> <<"m", "e", "s", "s", "a", "g", "e">>,
   code |-> <<"c", "o", "d", "e">>,
   severity |-> <<"s", "e", "v", "e", "r", "i", "t", "y">>,
   timestamp |-> <<"t", "i", "m", "e", "s", "t", "a", "m", "p">>,
   context |-> <<"c", "o", "n", "t", "e", "x", "t">>,
   cause |-> <<"c", "a", "u", "s", "e">>,
   userId |-> <<"u", "s", "e", "r", "I", "d">>,
   operation |-> <<"o", "p", "e", "r", "a", "t", "i", "o", "n">>,
   name |-> <<"n", "a", "m", "e">>,
   self |-> <<"s", "e", "l", "f">>]

DigitChars == <<"0", "1", "2", "3", "4", "5", "6", "7", "8", "9">>

\* The decimal digits of an integer, as String(i) writes them.
RECURSIVE Digits(_)
Digits(i) ==
  IF i < 0 THEN <<"-">> \o Digits(0 - i)
  ELSE IF i < 10 THEN <<DigitChars[i + 1]>>
       ELSE Digits(i \div 10) \o <<DigitChars[(i % 10) + 1]>>

\* The JSON text of one character of a string: quotes, backslashes and
\* control characters are escaped.
JSON_escape(char) ==
  CASE char = "\"" -> <<"\\", "\"">>
    [] char = "\\" -> <<"\\", "\\">>
    [] char = "\n" -> <<"\\", "n">>
    [] char = "\t" -> <<"\\", "t">>
    [] OTHER -> <<char>>

RECURSIVE JSON_chars(_)
JSON_chars(chars) ==
  IF chars = <<>> THEN <<>>
  ELSE JSON_escape(Head(chars)) \o JSON_chars(Tail(chars))

\* The JSON text of a string.
JSON_quote(chars) == <<"\"">> \o JSON_chars(chars) \o <<"\"">>

\* Date.prototype.toISOString: a RangeError for an invalid date, a TypeError
\* for a value that is not a Date.
toISOString(H, date) ==
  IF date.k = "object" /\ H[date.n].kind = "Date" /\ ~H[date.n].invalid
  THEN [threw |-> FALSE, value |-> DATE_ISO]
  ELSE [threw |-> TRUE, value |-> <<>>]

\* toJSON that writes every key, null for a field that is not set.
toJSON_NullsForMissing(H, self) ==
  [threw |-> FALSE,
   value |-> [key \in {"errorType", "message", "code", "severity",
                       "timestamp", "context"} |->
                CASE key = "errorType" -> Str(errorType(H, self))
                  [] key = "message" -> Str(H[self].message)
                  [] key = "code" ->
                     IF Truthy(code(H, self)) THEN code(H, self) ELSE Null
                  [] key = "severity" ->
                     IF Truthy(severity(H, self)) THEN severity(H, self)
                                                  ELSE Null
                  [] key = "timestamp" ->
                     IF toISOString(H, timestamp(H, self)).threw THEN Null
                     ELSE Str(DATE_ISO)
                  [] OTHER ->
                     IF Truthy(context(H, self)) THEN context(H, self)
                                                 ELSE Null]]

\* toJSON that also writes the causal link: ...(this.cause && { cause }).
toJSON_WithCause(H, self) ==
  LET iso == IF Truthy(timestamp(H, self))
             THEN toISOString(H, timestamp(H, self))
             ELSE [threw |-> FALSE, value |-> <<>>]
      keys == {"errorType", "message"}
                \cup {key \in {"code", "severity", "timestamp", "context"} :
                        Truthy(H[self].options[key])}
                \cup (IF H[self].hasCause /\ Truthy(H[self].cause)
                      THEN {"cause"} ELSE {})
  IN IF iso.threw
     THEN [threw |-> TRUE, value |-> NoProps]
     ELSE [threw |-> FALSE,
           value |-> [key \in keys |->
                        CASE key = "errorType" -> Str(errorType(H, self))
                          [] key = "message" -> Str(H[self].message)
                          [] key = "timestamp" -> Str(iso.value)
                          [] key = "cause" -> H[self].cause
                          [] OTHER -> H[self].options[key]]]

\* toJSON(): errorType and message always, each optional field when truthy.
toJSON(H, self) ==
  LET iso == IF Truthy(timestamp(H, self))
             THEN toISOString(H, timestamp(H, self))
             ELSE [threw |-> FALSE, value |-> <<>>]
      keys == {"errorType", "message"}
                \cup (IF Truthy(code(H, self)) THEN {"code"} ELSE {})
                \cup (IF Truthy(severity(H, self)) THEN {"severity"} ELSE {})
                \cup (IF Truthy(timestamp(H, self)) THEN {"timestamp"}
                                                    ELSE {})
                \cup (IF Truthy(context(H, self)) THEN {"context"} ELSE {})
  IN IF iso.threw
     THEN [threw |-> TRUE, value |-> NoProps]
     ELSE [threw |-> FALSE,
           value |-> [key \in keys |->
                        CASE key = "errorType" -> Str(errorType(H, self))
                          [] key = "message" -> Str(H[self].message)
                          [] key = "code" -> code(H, self)
                          [] key = "severity" -> severity(H, self)
                          [] key = "timestamp" -> Str(iso.value)
                          [] OTHER -> context(H, self)]]

\* The outcomes of JSON.stringify: a TypeError, undefined, or a text.
JSON_throws == [threw |-> TRUE, undef |-> FALSE, chars |-> <<>>]
JSON_undefined == [threw |-> FALSE, undef |-> TRUE, chars |-> <<>>]
JSON_text(chars) == [threw |-> FALSE, undef |-> FALSE, chars |-> chars]

\* items[1] sep items[2] sep ...
RECURSIVE Join(_, _)
Join(items, sep) ==
  IF items = <<>> THEN <<>>
  ELSE IF Len(items) = 1 THEN items[1]
       ELSE items[1] \o sep \o Join(Tail(items), sep)

\* JSON.stringify(v).  seen holds the objects being serialised: meeting one
\* of them again is a circular structure, a TypeError, and so is a BigInt;
\* NaN and the infinities give null, a symbol or a function gives
\* undefined.  A Date serialises
\* through its toJSON (null when invalid), an AglaError through the toJSON
\* above, any other object by its own enumerable properties; a property whose
\* value is undefined is left out.
RECURSIVE JSON_stringify(_, _, _), JSON_members(_, _, _, _)
JSON_members(H, props, seen, i) ==
  IF i > Len(KeyOrder)
  THEN [threw |-> FALSE, items |-> <<>>]
  ELSE LET key == KeyOrder[i]
           rest == JSON_members(H, props, seen, i + 1)
           member == JSON_stringify(H, props[key], seen)
       IN IF key \notin DOMAIN props THEN rest
          ELSE IF member.threw \/ rest.threw
               THEN [threw |-> TRUE, items |-> <<>>]
               ELSE IF member.undef THEN rest
                    ELSE [threw |-> FALSE,
                          items |-> <<JSON_quote(KeyChars[key]) \o <<":">>
                                        \o member.chars>> \o rest.items]

JSON_stringify(H, v, seen) ==
  CASE v.k = "undefined" -> JSON_undefined
    [] v.k = "null" -> JSON_text(<<"n", "u", "l", "l">>)
    [] v.k = "string" -> JSON_text(JSON_quote(v.s))
    [] v.k = "number" ->
       IF v.s # <<>> THEN JSON_text(<<"n", "u", "l", "l">>)
       ELSE JSON_text(Digits(v.n))
    [] v.k = "boolean" ->
       IF v.n # 0 THEN JSON_text(<<"t", "r", "u", "e">>)
       ELSE JSON_text(<<"f", "a", "l", "s", "e">>)
    [] v.k = "bigint" -> JSON_throws
    [] v.k \in {"symbol", "function"} -> JSON_undefined
    [] OTHER ->
       LET obj == H[v.n]
           json == IF obj.kind = "AglaError"
                   THEN toJSON(H, v.n)
                   ELSE [threw |-> FALSE, value |-> obj.props]
           members == JSON_members(H, json.value, seen \cup {v.n}, 1)
       IN IF v.n \in seen THEN JSON_throws
          ELSE IF obj.kind = "Date"
               THEN IF obj.invalid THEN JSON_text(<<"n", "u", "l", "l">>)
                    ELSE JSON_text(JSON_quote(DATE_ISO))
               ELSE IF json.threw \/ members.threw THEN JSON_throws
                    ELSE JSON_text(<<"{">> \o Join(members.items, <<",">>)
                                     \o <<"}">>)

\* toString that appends the context unconditionally:
\* `${this.errorType}: ${this.message} ${JSON.stringify(this.context)}`.
toString_AlwaysContext(H, self) ==
  LET json == JSON_stringify(H, context(H, self), {})
  IN IF json.threw
     THEN [threw |-> TRUE, value |-> <<>>]
     ELSE [threw |-> FALSE,
           value |-> errorType(H, self) \o <<":", " ">> \o H[self].message
                       \o <<" ">>
                       \o (IF json.undef
                           THEN <<"u", "n", "d", "e", "f", "i", "n", "e", "d">>
                           ELSE json.chars)]

\* toString(): the type, the message and, when the context is truthy and
\* has a JSON text, that text.
toString(H, self) ==
  LET json == IF Truthy(context(H, self))
              THEN JSON_stringify(H, context(H, self), {})
              ELSE JSON_undefined
      contextStr == IF json.undef THEN <<>> ELSE json.chars
  IN IF json.threw
     THEN [threw |-> TRUE, value |-> <<>>]
     ELSE [threw |-> FALSE,
           value |-> errorType(H, self) \o <<":", " ">> \o H[self].message
                       \o (IF contextStr # <<>> THEN <<" ">> \o contextStr
                                                ELSE <<>>)]

(* -------------------------------------------------------------- the state *)

VARIABLES
  heap,   \* address -> object: every object the program has created
  next,   \* the address the next AglaError instance is allocated at
  last,   \* the last call made: its operation, arguments and outcome
  from    \* history: for each instance, the chain call that returned it

vars == <<heap, next, last, from>>

\* The objects the calling code creates before it builds any error.
CTX_1 == 1       \* const context = { userId: '123' }
CTX_2 == 2       \* a second context object, { operation: 'op' }
DATE == 3        \* const timestamp = new Date(...)
CAUSE_ERR == 4   \* const causeError = new Error('Root cause')
BAG == 5         \* the object passed as the third constructor argument
CIRCULAR == 6    \* context = { name: 'circular' }; context.self = context
FirstErr == CIRCULAR + 1

Max(a, b) == IF a >= b THEN a ELSE b
Addrs ==
  Scratch .. (FirstErr + Max(Max(MaxErrs, MaxNew),
                             Max(Max(MaxLive, MaxAll),
                                 Max(MaxLoop, Max(MaxGuarded, MaxReadme))))
               - 1)

\* The addresses of the AglaError instances created so far.
Errors == FirstErr .. (next - 1)

\* out is the value a validator or guard call returned or, when it threw,
\* the message of the Error thrown.
NoCall ==
  [op |-> "none", cls |-> "", type |-> <<>>, message |-> <<>>, self |-> 0,
   arg |-> Undefined, ret |-> 0, threw |-> FALSE, out |-> Undefined,
   failure |-> NoFailure]

CallerHeap(bag, invalidDate) ==
  [a \in Addrs |->
     CASE a = CTX_1 -> PlainObject([userId |-> Str(USER_1)])
       [] a = CTX_2 -> PlainObject([operation |-> Str(OP_1)])
       [] a = DATE -> DateObject(invalidDate)
       [] a = CAUSE_ERR -> ErrorObject(ROOT_CAUSE)
       [] a = BAG -> PlainObject(bag)
       [] a = CIRCULAR -> PlainObject([name |-> Str(CIRCULAR_NAME),
                                       self |-> Ref(CIRCULAR)])
       [] OTHER -> NoObject]

\* { code, severity, timestamp, context, cause }: the structured call
\* style, with the legacy string field cause.
FullBag ==
  [code |-> Str(CODE_1), severity |-> Str(SEV_CRITICAL),
   timestamp |-> Ref(DATE), context |-> Ref(CTX_1),
   cause |-> Str(LEGACY_CAUSE)]

\* An instance a constructor call returned has from[a].self = 0; one that
\* self.chain(cause) returned has from[a] = [self, cause].
NoOrigin == [self |-> 0, cause |-> Undefined]

Init ==
  /\ heap = CallerHeap(FullBag, FALSE)
  /\ next = FirstErr
  /\ last = NoCall
  /\ from = [a \in Addrs |-> NoOrigin]

(* ------------------------------------------------------------ the actions *)

\* new cls(type, message, options), at most limit instances in a run.
Construct(cls, type, message, options, limit) ==
  /\ next < FirstErr + limit
  /\ LET r == New(cls, type, message, options, heap)
         call == [NoCall EXCEPT !.op = "new", !.cls = cls, !.type = type,
                                !.message = message, !.arg = options]
     IN IF r.threw
        THEN /\ last' = [call EXCEPT !.threw = TRUE, !.failure = r.failure]
             /\ UNCHANGED <<heap, next, from>>
        ELSE /\ heap' = [heap EXCEPT ![next] = r.object]
             /\ next' = next + 1
             /\ last' = [call EXCEPT !.ret = next]
             /\ UNCHANGED from

\* self.chain(cause), at most limit instances in a run.
Chain(self, cause, limit) ==
  /\ self \in Errors
  /\ next < FirstErr + limit
  /\ LET r == chain(heap, self, cause, next)
         call == [NoCall EXCEPT !.op = "chain", !.self = self, !.arg = cause]
     IN IF r.threw
        THEN /\ last' = [call EXCEPT !.threw = TRUE, !.failure = r.failure]
             /\ UNCHANGED <<heap, next, from>>
        ELSE /\ heap' = r.heap
             /\ next' = IF r.ret = next THEN next + 1 ELSE next
             /\ last' = [call EXCEPT !.ret = r.ret]
             /\ from' = IF r.ret = next
                        THEN [from EXCEPT ![next] = [self |-> self,
                                                     cause |-> cause]]
                        ELSE from

\* self.context = value
SetContext(self, value) ==
  /\ self \in Errors
  /\ context(heap, self) # value
  /\ heap' = set_context(heap, self, value)
  /\ last' = [NoCall EXCEPT !.op = "set", !.self = self, !.arg = value]
  /\ UNCHANGED <<next, from>>

\* The caller mutates in place the object an error holds as its context,
\* overwriting one of its keys: context[key] = value through the caller's
\* own reference to the object.
Mutate(self, key, value) ==
  /\ self \in Errors
  /\ context(heap, self).k = "object"
  /\ LET obj == context(heap, self).n
         old == heap[obj].props
     IN /\ heap[obj].kind = "Object"
        /\ key \in DOMAIN old
        /\ old[key] # value
        /\ heap' = [heap EXCEPT ![obj].props = [old EXCEPT ![key] = value]]
        /\ last' = [NoCall EXCEPT !.op = "mutate", !.self = self,
                                  !.arg = Ref(obj)]
  /\ UNCHANGED <<next, from>>

\* self.toString(): the call changes nothing; whether it threw is recorded.
CallToString(self) ==
  /\ self \in Errors
  /\ last' = [NoCall EXCEPT !.op = "toString", !.self = self,
                            !.threw = toString(heap, self).threw]
  /\ UNCHANGED <<heap, next, from>>

\* self.toJSON(): the call changes nothing; whether it threw is recorded.
CallToJSON(self) ==
  /\ self \in Errors
  /\ last' = [NoCall EXCEPT !.op = "toJSON", !.self = self,
                            !.threw = toJSON(heap, self).threw]
  /\ UNCHANGED <<heap, next, from>>

\* AG_isValidErrorSeverity(value)
CallIsValidErrorSeverity(value) ==
  /\ last' = [NoCall EXCEPT !.op = "AG_isValidErrorSeverity", !.arg = value,
                            !.out = Bool(AG_isValidErrorSeverity(value))]
  /\ UNCHANGED <<heap, next, from>>

\* isValidAglaErrorContext(value)
CallIsValidContext(value) ==
  /\ last' = [NoCall EXCEPT !.op = "isValidAglaErrorContext", !.arg = value,
                            !.out = Bool(isValidAglaErrorContext(value))]
  /\ UNCHANGED <<heap, next, from>>

\* guardAglaErrorContext(value)
CallGuardContext(value) ==
  /\ LET r == guardAglaErrorContext(value)
     IN last' = [NoCall EXCEPT !.op = "guardAglaErrorContext",
                               !.arg = value, !.threw = r.threw,
                               !.out = IF r.threw THEN Str(r.message)
                                                  ELSE r.value]
  /\ UNCHANGED <<heap, next, from>>

(* ----------------------------------------------------- the specifications *)

\* The values a caller passes as cause.
Causes ==
  {Undefined, Null, Str(ROOT_CAUSE), Ref(CAUSE_ERR), Ref(CTX_1)}
    \cup {Ref(a) : a \in Errors}

ErrorTypes == {ET_A, ET_B}

\* The third constructor arguments of the calling code: none, a bare context
\* (the legacy call style) and a structured options bag.
Options == {Undefined, Ref(CTX_1), Ref(BAG)}

\* Every operation that creates or changes an object, on a few instances.
Next ==
  \/ \E cls \in Classes, type \in ErrorTypes, options \in Options :
       Construct(cls, type, MSG, options, MaxLive)
  \/ \E self \in Errors, cause \in Causes : Chain(self, cause, MaxLive)
  \/ \E self \in Errors, value \in {Ref(CTX_1), Ref(CTX_2)} :
       SetContext(self, value)
  \/ \E self \in Errors : Mutate(self, "userId", Str(USER_2))

Spec == Init /\ [][Next]_vars

\* Constructor and chain calls alone, on longer chains.
NextChain ==
  \/ \E cls \in Classes, type \in ErrorTypes, options \in Options :
       Construct(cls, type, MSG, options, MaxErrs)
  \/ \E self \in Errors, cause \in Causes : Chain(self, cause, MaxErrs)

SpecChain == Init /\ [][NextChain]_vars

\* The constructor alone, over a wide range of third arguments.
BagValues ==
  [code : {Str(CODE_1), Undefined},
   severity : {Str(SEV_ERROR), Str(SEV_CRITICAL)},
   timestamp : {Ref(DATE)},
   context : {Ref(CTX_1)},
   cause : {Str(LEGACY_CAUSE)},
   userId : {Str(USER_1)}]

Bags ==
  {[key \in keys |-> full[key]] :
     full \in BagValues,
     keys \in SUBSET {"code", "severity", "timestamp", "context", "cause",
                      "userId"}}

InitNew ==
  /\ \E bag \in Bags, invalidDate \in BOOLEAN :
       heap = CallerHeap(bag, invalidDate)
  /\ next = FirstErr
  /\ last = NoCall
  /\ from = [a \in Addrs |-> NoOrigin]

OptionArgs ==
  {Undefined, Null, Str(<<>>), Str(BAD_OPT), Num(0), Num(7),
   Ref(CTX_1), Ref(BAG)}

NextNew ==
  \E cls \in Classes, message \in {MSG, MSG_TAGGED}, options \in OptionArgs :
    Construct(cls, ET_A, message, options, MaxNew)

SpecNew == InitNew /\ [][NextNew]_vars

\* The constructor over the third arguments it accepts, followed by
\* toString and toJSON calls; the messages include one with a line break.
SerOptionArgs == {Undefined, Null, Str(<<>>), Num(0), Ref(CTX_1), Ref(BAG)}

NextSer ==
  \/ \E cls \in Classes, message \in {MSG, MSG_LINES},
        options \in SerOptionArgs :
       Construct(cls, ET_A, message, options, MaxNew)
  \/ \E self \in Errors : CallToString(self)
  \/ \E self \in Errors : CallToJSON(self)

SpecSer == InitNew /\ [][NextSer]_vars

\* The validator and the guards, over strings around the four severity
\* names (case variants, padded with white space, empty, numeric) and over
\* values of every other type.
Pads == {<<>>, <<" ">>, <<"\t">>, <<"\n">>}

Capitalize(chars) ==
  IF chars = <<>> THEN chars
  ELSE toUpperCase(<<Head(chars)>>) \o Tail(chars)

Cores ==
  AG_ERROR_SEVERITY_VALUES
    \cup {toUpperCase(name) : name \in AG_ERROR_SEVERITY_VALUES}
    \cup {Capitalize(name) : name \in AG_ERROR_SEVERITY_VALUES}
    \cup {<<>>, <<"0">>, <<"1">>, <<"-", "1">>, SEV_CRITICAL}

GuardStrings ==
  {Str(left \o core \o right) : left \in Pads, core \in Cores,
                                 right \in Pads}

GuardValues ==
  GuardStrings
    \cup {Undefined, Null, Num(0), Num(1), Num(-1), NaN, Infinity(1),
          Infinity(-1), BigInt(1), Symbol(SEV_ERROR), Bool(TRUE), Bool(FALSE),
          Func, Ref(CTX_1), Ref(CTX_2), Ref(DATE), Ref(CAUSE_ERR), Ref(BAG)}

NextGuards ==
  \/ \E value \in GuardValues : CallIsValidErrorSeverity(value)
  \/ \E value \in GuardValues : CallIsValidContext(value)
  \/ \E value \in GuardValues : CallGuardContext(value)

SpecGuards == Init /\ [][NextGuards]_vars

\* Every operation, toString and toJSON included, in any order.
NextAll ==
  \/ \E cls \in Classes, options \in {Undefined, Ref(BAG)} :
       Construct(cls, ET_A, MSG, options, MaxAll)
  \/ \E self \in Errors,
        cause \in {Str(ROOT_CAUSE)} \cup {Ref(a) : a \in Errors} :
       Chain(self, cause, MaxAll)
  \/ \E self \in Errors : SetContext(self, Ref(CTX_2))
  \/ \E self \in Errors : Mutate(self, "userId", Str(USER_2))
  \/ \E self \in Errors : CallToString(self)
  \/ \E self \in Errors : CallToJSON(self)

SpecAll == Init /\ [][NextAll]_vars

\* Chains whose causes are instances, the receiver itself among them,
\* followed by toString and toJSON calls.
NextLoop ==
  \/ \E cls \in Classes, options \in {Undefined, Ref(BAG)} :
       Construct(cls, ET_A, MSG, options, MaxLoop)
  \/ \E self \in Errors,
        cause \in {Ref(CAUSE_ERR)} \cup {Ref(a) : a \in Errors} :
       Chain(self, cause, MaxLoop)
  \/ \E self \in Errors : CallToString(self)
  \/ \E self \in Errors : CallToJSON(self)

SpecLoop == Init /\ [][NextLoop]_vars

\* A validating subtype next to a forwarding one: contexts are replaced by
\* values the guard rejects, and the instances are chained.
NextGuarded ==
  \/ \E cls \in {"GuardedAglaError", "TestAglaError"},
        options \in Options :
       Construct(cls, ET_A, MSG, options, MaxGuarded)
  \/ \E self \in Errors, cause \in {Str(ROOT_CAUSE), Ref(CAUSE_ERR)} :
       Chain(self, cause, MaxGuarded)
  \/ \E self \in Errors,
        value \in {Undefined, Null, Str(BAD_OPT), Ref(CTX_2)} :
       SetContext(self, value)

SpecGuarded == Init /\ [][NextGuarded]_vars

\* The constructor with a context that refers to itself, as a bare context
\* and under the context key of a bag, followed by toString and toJSON
\* calls.
InitCircular ==
  /\ \E bag \in {[context |-> Ref(CIRCULAR)],
                  [context |-> Ref(CIRCULAR), code |-> Str(CODE_1)],
                  [context |-> Ref(CTX_1)]} :
       heap = CallerHeap(bag, FALSE)
  /\ next = FirstErr
  /\ last = NoCall
  /\ from = [a \in Addrs |-> NoOrigin]

NextCircular ==
  \/ \E cls \in Classes, options \in {Ref(CIRCULAR), Ref(BAG), Undefined} :
       Construct(cls, ET_A, MSG, options, MaxLoop)
  \/ \E self \in Errors : CallToString(self)
  \/ \E self \in Errors : CallToJSON(self)

SpecCircular == InitCircular /\ [][NextCircular]_vars

\* The README's NetworkError: new NetworkError(message), its one argument
\* being the message, and chain calls on its instances.
NextReadme ==
  \/ \E message \in {MSG, FETCH_MSG} :
       Construct("NetworkError", message, <<>>, Undefined, MaxReadme)
  \/ \E self \in Errors, cause \in Causes : Chain(self, cause, MaxReadme)

SpecReadme == Init /\ [][NextReadme]_vars

\* Errors built in the legacy call style (a bare context) and in the
\* structured one, contexts replaced by an object that has the keys code,
\* severity, timestamp, context and cause, and chain calls on them.
NextReserved ==
  \/ \E cls \in Classes, options \in {Ref(CTX_1), Ref(BAG)} :
       Construct(cls, ET_A, MSG, options, MaxErrs)
  \/ \E self \in Errors, cause \in {Str(ROOT_CAUSE), Ref(CAUSE_ERR)} :
       Chain(self, cause, MaxErrs)
  \/ \E self \in Errors : SetContext(self, Ref(BAG))

SpecReserved == Init /\ [][NextReserved]_vars

(* ------------------------------------------------------------- properties *)

RECURSIVE Root(_)
\* The constructed instance a chained instance descends from.
Root(a) == IF from[a].self = 0 THEN a ELSE Root(from[a].self)

RECURSIVE Lineage(_)
\* An instance and the instances it was chained from, back to the root.
Lineage(a) == IF from[a].self = 0 THEN {a} ELSE {a} \cup Lineage(from[a].self)

\* The instances chain calls returned.
Chained == {a \in Errors : from[a].self # 0}

\* C1: e.chain(c) returns an instance r that is not e, is of the concrete
\* class of e, has the errorType of e, and whose cause is c.
C1_ChainReturnsNewInstance ==
  last.op = "chain" =>
    /\ ~last.threw
    /\ last.ret # last.self
    /\ heap[last.ret].kind = "AglaError"
    /\ heap[last.ret].cls = heap[last.self].cls
    /\ errorType(heap, last.ret) = errorType(heap, last.self)
    /\ heap[last.ret].hasCause
    /\ heap[last.ret].cause = last.arg

C1_Witness ==
  /\ last.op = "chain"
  /\ last.arg = Ref(CAUSE_ERR)
  /\ heap[last.self].cls = "TestAglaError"
  /\ errorType(heap, last.self) = ET_B

\* C2: a chain call changes no field of its receiver (errorType, message,
\* code, severity, timestamp, context, cause), nor any other existing object.
C2_ChainNonMutating ==
  [][last'.op = "chain" =>
       /\ errorType(heap', last'.self) = errorType(heap, last'.self)
       /\ heap'[last'.self].message = heap[last'.self].message
       /\ code(heap', last'.self) = code(heap, last'.self)
       /\ severity(heap', last'.self) = severity(heap, last'.self)
       /\ timestamp(heap', last'.self) = timestamp(heap, last'.self)
       /\ context(heap', last'.self) = context(heap, last'.self)
       /\ heap'[last'.self].hasCause = heap[last'.self].hasCause
       /\ heap'[last'.self].cause = heap[last'.self].cause
       /\ \A a \in Addrs : a # last'.ret => heap'[a] = heap[a]]_vars

\* The same instance has been chained twice, with two causes.
C2_Witness ==
  \E r1, r2 \in Chained :
    /\ r1 # r2
    /\ from[r1].self = from[r2].self
    /\ from[r1].cause # from[r2].cause
    /\ ~heap[from[r1].self].hasCause

\* C3: for the forwarding subclass BasicAglaError, e.chain(c) returns an
\* instance with the errorType, message, code and severity of e and with the
\* very timestamp and context of e, unset fields staying unset.
C3_ForwardingChainCopiesFields ==
  (last.op = "chain" /\ heap[last.self].cls = "BasicAglaError") =>
    /\ ~last.threw
    /\ errorType(heap, last.ret) = errorType(heap, last.self)
    /\ heap[last.ret].message = heap[last.self].message
    /\ code(heap, last.ret) = code(heap, last.self)
    /\ severity(heap, last.ret) = severity(heap, last.self)
    /\ timestamp(heap, last.ret) = timestamp(heap, last.self)
    /\ context(heap, last.ret) = context(heap, last.self)

C3_Witness ==
  /\ last.op = "chain"
  /\ heap[last.self].cls = "BasicAglaError"
  /\ code(heap, last.ret) = Str(CODE_1)
  /\ timestamp(heap, last.ret) = Ref(DATE)
  /\ context(heap, last.ret) = Ref(CTX_2)

\* C4: chain never throws, whatever the cause (null, undefined, a plain
\* object, a string, another error, the receiver itself), and the instance
\* it returned holds exactly the value it was given as its cause.
C4_ChainAcceptsAnyCause ==
  /\ last.op = "chain" => ~last.threw /\ last.ret \in Chained
  /\ \A r \in Chained : heap[r].hasCause /\ heap[r].cause = from[r].cause

\* A chain with null and a chain with the receiver itself have been made.
C4_Witness ==
  \E r1, r2 \in Chained :
    /\ from[r1].cause = Null
    /\ from[r2].cause = Ref(from[r2].self)

KeysOf(H, v) == IF v.k = "object" THEN DOMAIN H[v.n].props ELSE {}

\* The value under a key of the third constructor argument, unset when the
\* key is absent.
Supplied(H, v, key) ==
  IF key \in KeysOf(H, v) THEN H[v.n].props[key] ELSE Undefined

RecognisedKeys == {"code", "severity", "timestamp", "context", "cause"}

\* C6: a third argument with a recognised key is read key by key; an object
\* with none is the context as a whole, the other fields unset; no third
\* argument leaves all four unset.
C6_OptionsDisambiguation ==
  (last.op = "new" /\ ~last.threw) =>
    /\ (last.arg.k = "object" /\ KeysOf(heap, last.arg) \cap RecognisedKeys # {}) =>
         /\ code(heap, last.ret) = Supplied(heap, last.arg, "code")
         /\ severity(heap, last.ret) = Supplied(heap, last.arg, "severity")
         /\ timestamp(heap, last.ret) = Supplied(heap, last.arg, "timestamp")
         /\ context(heap, last.ret) = Supplied(heap, last.arg, "context")
    /\ (last.arg.k = "object" /\ KeysOf(heap, last.arg) \cap RecognisedKeys = {}) =>
         /\ context(heap, last.ret) = last.arg
         /\ code(heap, last.ret) = Undefined
         /\ severity(heap, last.ret) = Undefined
         /\ timestamp(heap, last.ret) = Undefined
    /\ last.arg = Undefined =>
         /\ context(heap, last.ret) = Undefined
         /\ code(heap, last.ret) = Undefined
         /\ severity(heap, last.ret) = Undefined
         /\ timestamp(heap, last.ret) = Undefined

\* A bag holding the legacy cause key alone has been passed.
C6_Witness ==
  /\ last.op = "new"
  /\ last.arg = Ref(BAG)
  /\ KeysOf(heap, last.arg) = {"cause"}
  /\ last.ret \in Errors

\* C7: the constructor completes for every third argument (none, null, an
\* object, a string, a number), and an argument that is not a structured bag
\* is stored as the context.
C7_ConstructionNeverThrows ==
  last.op = "new" =>
    /\ ~last.threw
    /\ KeysOf(heap, last.arg) \cap RecognisedKeys = {} =>
         context(heap, last.ret) = last.arg

\* C8: the severity and the timestamp of a bag are stored as supplied, with
\* no validation: a severity the validator rejects and an invalid date too.
C8_NoValidation ==
  (last.op = "new" /\ last.arg.k = "object") =>
    /\ ~last.threw
    /\ "severity" \in KeysOf(heap, last.arg) =>
         severity(heap, last.ret) = heap[last.arg.n].props["severity"]
    /\ "timestamp" \in KeysOf(heap, last.arg) =>
         timestamp(heap, last.ret) = heap[last.arg.n].props["timestamp"]

\* An error built with the severity 'critical' and an invalid date.
C8_Witness ==
  /\ last.op = "new"
  /\ last.ret \in Errors
  /\ severity(heap, last.ret) = Str(SEV_CRITICAL)
  /\ ~AG_isValidErrorSeverity(severity(heap, last.ret))
  /\ timestamp(heap, last.ret) = Ref(DATE)
  /\ heap[DATE].invalid

\* C9: the context is the very object supplied (in the bag, as the bare
\* third argument, or through the setter), it changes only through the
\* setter, and a mutation the caller makes to that object in place is read
\* through the context of every error that holds it.
C9_ContextByReference ==
  [][/\ (last'.op = "new" /\ last'.arg = Ref(BAG)) =>
          context(heap', last'.ret) = heap[BAG].props["context"]
     /\ (last'.op = "new" /\ last'.arg = Ref(CTX_1)) =>
          context(heap', last'.ret) = Ref(CTX_1)
     /\ last'.op = "set" => context(heap', last'.self) = last'.arg
     /\ \A e \in Errors :
          context(heap', e) # context(heap, e) =>
            last'.op = "set" /\ last'.self = e
     /\ last'.op = "mutate" =>
          \A e \in Errors :
            context(heap, e) = last'.arg =>
              heap'[context(heap', e).n].props["userId"] = Str(USER_2)]_vars

\* The caller has mutated the context object of an error built from a bag.
C9_Witness ==
  /\ last.op = "mutate"
  /\ last.arg = Ref(CTX_1)
  /\ code(heap, last.self) = Str(CODE_1)
  /\ ~heap[last.self].hasCause
  /\ heap[context(heap, last.self).n].props["userId"] = Str(USER_2)

\* C10: e.context = X makes X itself the context, merges nothing into it,
\* and leaves errorType, message, code, severity, timestamp and cause alone.
C10_SetterReplaces ==
  [][last'.op = "set" =>
       /\ context(heap', last'.self) = last'.arg
       /\ KeysOf(heap', context(heap', last'.self)) = KeysOf(heap, last'.arg)
       /\ \A a \in Addrs : a # last'.self => heap'[a] = heap[a]
       /\ errorType(heap', last'.self) = errorType(heap, last'.self)
       /\ heap'[last'.self].message = heap[last'.self].message
       /\ code(heap', last'.self) = code(heap, last'.self)
       /\ severity(heap', last'.self) = severity(heap, last'.self)
       /\ timestamp(heap', last'.self) = timestamp(heap, last'.self)
       /\ heap'[last'.self].hasCause = heap[last'.self].hasCause
       /\ heap'[last'.self].cause = heap[last'.self].cause]_vars

\* The context { userId } of a chained error has been replaced by
\* { operation }.
C10_Witness ==
  /\ last.op = "set"
  /\ last.arg = Ref(CTX_2)
  /\ context(heap, last.self) = Ref(CTX_2)
  /\ "userId" \notin KeysOf(heap, context(heap, last.self))
  /\ "userId" \in KeysOf(heap, Ref(CTX_1))
  /\ code(heap, last.self) = Str(CODE_1)
  /\ heap[last.self].hasCause

\* C11: the values errorType, code, severity and timestamp return for an
\* instance never change after its construction, whatever is called (chain
\* on it or on another instance, a context replacement, an in-place
\* mutation, toString, toJSON); the value context returns changes only in
\* a step that is a call of that instance's context setter.
C11_FieldsImmutable ==
  [][\A e \in Errors :
       /\ errorType(heap', e) = errorType(heap, e)
       /\ code(heap', e) = code(heap, e)
       /\ severity(heap', e) = severity(heap, e)
       /\ timestamp(heap', e) = timestamp(heap, e)
       /\ context(heap', e) # context(heap, e)
            => last'.op = "set" /\ last'.self = e]_vars

\* An instance built with a code, then chained, whose copy had its context
\* replaced, and on which toJSON was then called.
C11_Witness ==
  /\ last.op = "toJSON"
  /\ \E r \in Chained :
       /\ Truthy(code(heap, r))
       /\ context(heap, r) # context(heap, from[r].self)

\* The value the accessor named key returns.
Field(H, self, key) ==
  CASE key = "code" -> code(H, self)
    [] key = "severity" -> severity(H, self)
    [] key = "timestamp" -> timestamp(H, self)
    [] OTHER -> context(H, self)

OptionalKeys == {"code", "severity", "timestamp", "context"}

\* C12: the record a toJSON call returns always has the keys errorType and
\* message; it has the key code, severity, timestamp or context exactly
\* when that field is truthy, it has no other key, and no key holds null or
\* undefined; for an error built from errorType and message alone the
\* record has exactly the two keys.
C12_ToJSONOmitsUnset ==
  (last.op = "toJSON" /\ ~last.threw) =>
    LET record == toJSON(heap, last.self).value
    IN /\ {"errorType", "message"} \subseteq DOMAIN record
       /\ DOMAIN record \subseteq {"errorType", "message"} \cup OptionalKeys
       /\ \A key \in OptionalKeys :
            key \in DOMAIN record <=> Truthy(Field(heap, last.self, key))
       /\ \A key \in DOMAIN record :
            record[key].k \notin {"null", "undefined"}
       /\ (\A key \in OptionalKeys :
             Field(heap, last.self, key) = Undefined)
            => DOMAIN record = {"errorType", "message"}

\* toJSON returned a record with a code and a timestamp and without
\* severity and context.
C12_Witness ==
  /\ last.op = "toJSON"
  /\ ~last.threw
  /\ DOMAIN toJSON(heap, last.self).value =
       {"errorType", "message", "code", "timestamp"}

\* The JSON texts of the context objects of the calling code: { userId:
\* '123' } and {}.
JSON_USER_1 ==
  <<"{", "\"", "u", "s", "e", "r", "I", "d", "\"", ":", "\"", "1", "2",
    "3", "\"", "}">>

JSON_EMPTY == <<"{", "}">>

\* C13: the string a toString call returns is errorType, ': ' and the
\* message, followed by one space and the JSON text of the context exactly
\* when the context is truthy; with a context that is unset or falsy it is
\* errorType, ': ' and the message and nothing more.
C13_ToStringFormat ==
  (last.op = "toString" /\ ~last.threw) =>
    LET out == toString(heap, last.self).value
        ctx == context(heap, last.self)
        base == errorType(heap, last.self) \o <<":", " ">>
                  \o heap[last.self].message
    IN IF Truthy(ctx)
       THEN out = base \o <<" ">>
                    \o (IF HasKey(heap, ctx, "userId") THEN JSON_USER_1
                                                       ELSE JSON_EMPTY)
       ELSE out = base

\* toString returned 'E: m {"userId":"123"}'.
C13_Witness ==
  /\ last.op = "toString"
  /\ context(heap, last.self) = Ref(CTX_1)
  /\ toString(heap, last.self).value = ET_A \o <<":", " ">> \o MSG
                                         \o <<" ">> \o JSON_USER_1

\* sub occurs in str.
Contains(str, sub) ==
  \E i \in 1 .. (Len(str) - Len(sub) + 1) :
    SubSeq(str, i, i + Len(sub) - 1) = sub

\* C14: the string a toString call returns has no line break, and it does
\* not depend on the causal link of the instance: it is the string the same
\* instance would return without the link, and the text of a string cause
\* or of the message of an Error cause does not occur in it.
C14_ToStringSingleLine ==
  (last.op = "toString" /\ ~last.threw) =>
    LET out == toString(heap, last.self).value
    IN /\ ~Contains(out, <<"\n">>)
       /\ out = toString([heap EXCEPT ![last.self].hasCause = FALSE,
                                      ![last.self].cause = Undefined],
                         last.self).value
       /\ heap[last.self].hasCause => ~Contains(out, ROOT_CAUSE)

\* C15: the severity validator returns true exactly for the four strings
\* 'fatal', 'error', 'warning' and 'info'; for every other argument (a case
\* variant, a padded, empty or numeric string, a number, NaN, an infinity,
\* a big integer, a symbol, a boolean, an object, a function, null,
\* undefined) it returns false, and it never throws.
C15_SeverityValidator ==
  last.op = "AG_isValidErrorSeverity" =>
    /\ ~last.threw
    /\ last.out =
         Bool(last.arg \in {Str(<<"f", "a", "t", "a", "l">>),
                            Str(<<"e", "r", "r", "o", "r">>),
                            Str(<<"w", "a", "r", "n", "i", "n", "g">>),
                            Str(<<"i", "n", "f", "o">>)})

\* The validator returned false for 'FATAL'.
C15_Witness ==
  /\ last.op = "AG_isValidErrorSeverity"
  /\ last.arg = Str(<<"F", "A", "T", "A", "L">>)
  /\ last.out = Bool(FALSE)

\* C16: isValidAglaErrorContext returns true exactly for an object that is
\* not null (false for null, undefined, strings, numbers, booleans, symbols,
\* big integers and functions); guardAglaErrorContext returns its argument
\* itself when the argument is such an object, and otherwise throws an
\* Error whose message is 'Invalid AglaErrorContext: expected object, got '
\* followed by the typeof name of the argument ('object' for null).
C16_ContextGuards ==
  LET isObject == last.arg.k = "object"
      name == IF last.arg = Null THEN "object" ELSE last.arg.k
  IN /\ last.op = "isValidAglaErrorContext" =>
          ~last.threw /\ last.out = Bool(isObject)
     /\ last.op = "guardAglaErrorContext" =>
          IF isObject
          THEN ~last.threw /\ last.out = last.arg
          ELSE last.threw /\ last.out = Str(GUARD_MESSAGE \o TypeName[name])

\* The guard threw '... expected object, got object' for null.
C16_Witness ==
  /\ last.op = "guardAglaErrorContext"
  /\ last.arg = Null
  /\ last.threw
  /\ last.out = Str(GUARD_MESSAGE \o <<"o", "b", "j", "e", "c", "t">>)

\* C17: an instance a constructor call returned has no causal link, also
\* when its options bag carried the legacy string field cause; an instance
\* has a causal link exactly when a chain call returned it, and the link is
\* the argument of that call.
C17_CauseOnlyByChain ==
  \A e \in Errors :
    IF from[e].self = 0
    THEN ~heap[e].hasCause
    ELSE heap[e].hasCause /\ heap[e].cause = from[e].cause

\* An instance built from a bag with cause: 'Orig' has no link, and its
\* chained copy has the link passed to chain.
C17_Witness ==
  /\ last.op = "chain"
  /\ \E e \in Errors, r \in Chained :
       /\ from[e].self = 0
       /\ heap[e].options.cause = Str(LEGACY_CAUSE)
       /\ ~heap[e].hasCause
       /\ from[r].self = e
       /\ heap[r].cause = Str(ROOT_CAUSE)

\* C18: the instance r that e.chain(c) returns starts with the very context
\* object of e; from then on a replacement of r's context through the
\* setter leaves e's context as it was and a replacement of e's context
\* leaves r's as it was, while an in-place mutation of a context object
\* both still hold is seen through both.
C18_ChainedContextIndependent ==
  [][/\ (last'.op = "chain" /\ ~last'.threw)
          => context(heap', last'.ret) = context(heap, last'.self)
     /\ \A r \in Chained :
          LET e == from[r].self
          IN /\ (last'.op = "set" /\ last'.self = r)
                  => context(heap', e) = context(heap, e)
             /\ (last'.op = "set" /\ last'.self = e)
                  => context(heap', r) = context(heap, r)
             /\ (/\ last'.op = "mutate"
                 /\ context(heap, r) = last'.arg
                 /\ context(heap, e) = last'.arg)
                  => /\ context(heap', r) = context(heap', e)
                     /\ Get(heap', context(heap', r), "userId") = Str(USER_2)
                     /\ Get(heap', context(heap', e), "userId")
                          = Str(USER_2)]_vars

\* The context of a chained copy was replaced and the original still holds
\* the context object the two started with.
C18_Witness ==
  /\ last.op = "set"
  /\ \E r \in Chained :
       /\ last.self = r
       /\ context(heap, r) = Ref(CTX_2)
       /\ context(heap, from[r].self) = Ref(CTX_1)

\* The heap without any causal link.
Unlinked(H) ==
  [a \in DOMAIN H |-> [H[a] EXCEPT !.hasCause = FALSE, !.cause = Undefined]]

\* The instances the causal links lead to from the value v.
RECURSIVE LinkedFrom(_)
LinkedFrom(v) ==
  IF v.k = "object" /\ v.n \in Errors
  THEN {v.n} \cup (IF heap[v.n].hasCause THEN LinkedFrom(heap[v.n].cause)
                                         ELSE {})
  ELSE {}

\* C19: chain succeeds whatever its cause is, also when the cause is the
\* receiver itself or an instance whose causal links lead back to the
\* receiver; toString and toJSON of every instance, also of one in such a
\* loop, complete and return what they would return without any causal
\* link.
C19_CyclicCausesHarmless ==
  /\ last.op = "chain" => ~last.threw
  /\ \A e \in Errors :
       /\ ~toString(heap, e).threw
       /\ ~toJSON(heap, e).threw
       /\ toString(heap, e) = toString(Unlinked(heap), e)
       /\ toJSON(heap, e) = toJSON(Unlinked(heap), e)

\* toString was called on an instance that e.chain(c) returned, where the
\* links of c lead back to e through another instance.
C19_Witness ==
  /\ last.op = "toString"
  /\ ~last.threw
  /\ \E r \in Chained :
       /\ last.self = r
       /\ from[r].cause # Ref(from[r].self)
       /\ from[r].self \in LinkedFrom(from[r].cause)

\* C20: an object passed as the third argument that has a key of its own
\* (userId) next to one of the keys code, severity, timestamp, context and
\* cause is read as a structured bag: the context of the error is the value
\* under the object's context key, unset when it has none, and never the
\* object itself; each reserved key's value is in its field; the object is
\* held by no field of the error, and with no context key its userId shows
\* neither in toJSON nor in toString.
C20_ReservedKeyCollision ==
  (/\ last.op = "new"
   /\ last.arg = Ref(BAG)
   /\ "userId" \in KeysOf(heap, last.arg)
   /\ KeysOf(heap, last.arg) \cap RecognisedKeys # {}) =>
    LET r == last.ret
        o == heap[r].options
    IN /\ ~last.threw
       /\ context(heap, r) # last.arg
       /\ context(heap, r) = Supplied(heap, last.arg, "context")
       /\ "context" \notin KeysOf(heap, last.arg)
            => /\ context(heap, r) = Undefined
               /\ ~Contains(toString(heap, r).value, KeyChars["userId"])
       /\ code(heap, r) = Supplied(heap, last.arg, "code")
       /\ severity(heap, r) = Supplied(heap, last.arg, "severity")
       /\ timestamp(heap, r) = Supplied(heap, last.arg, "timestamp")
       /\ o.cause = Supplied(heap, last.arg, "cause")
       /\ last.arg \notin {o.code, o.severity, o.timestamp, o.context,
                           o.cause}
       /\ ~toJSON(heap, r).threw
            => "userId" \notin DOMAIN toJSON(heap, r).value

\* { severity: 'critical', userId: '123' } was passed: the severity is
\* stored and the error has no context.
C20_Witness ==
  /\ last.op = "new"
  /\ last.arg = Ref(BAG)
  /\ KeysOf(heap, last.arg) = {"severity", "userId"}
  /\ severity(heap, last.ret) = Str(SEV_CRITICAL)
  /\ context(heap, last.ret) = Undefined

C23_NameIsClassName ==
  /\ (last.op = "new" /\ ~last.threw) => heap[last.ret].name = last.cls
  /\ \A e \in Errors :
       /\ heap[e].name \in Classes
       /\ heap[e].name = heap[e].cls
  /\ \A r \in Chained :
       /\ heap[r].name = heap[from[r].self].name
       /\ heap[r].name = heap[Root(r)].name

\* A TestAglaError chained twice: the instance at depth two is named
\* 'TestAglaError'.
C23_Witness ==
  /\ last.op = "chain"
  /\ \E r \in Chained :
       /\ last.ret = r
       /\ from[r].self \in Chained
       /\ heap[r].name = "TestAglaError"
       /\ heap[Root(r)].name = "TestAglaError"

C25_ToJSONNeverThrows ==
  last.op = "toJSON" =>
    /\ ~last.threw
    /\ {"errorType", "message"} \subseteq DOMAIN toJSON(heap, last.self).value

\* C26: toString returns a string, without throwing, for every error the
\* constructor built, also for one whose context refers to itself.
C26_ToStringNeverThrows ==
  last.op = "toString" =>
    /\ ~last.threw
    /\ StartsWith(toString(heap, last.self).value,
                  errorType(heap, last.self) \o <<":", " ">>)

C28_ChainCopiesCurrentContext ==
  [][/\ (/\ last.op = "set"
         /\ last'.op = "chain"
         /\ last'.self = last.self
         /\ ~last'.threw)
          => /\ context(heap', last'.ret) = last.arg
             /\ context(heap', last'.self) = last.arg
     /\ last'.op = "set" =>
          \A r \in Chained :
            from[r].self = last'.self =>
              /\ context(heap', r) = context(heap, r)
              /\ context(heap', from[r].self) = last'.arg]_vars

\* The context of e was replaced by { operation }, e was chained, and the
\* context of e was then replaced by { userId }: the chained instance still
\* holds { operation }, which only the setter could have given to e.
C28_Witness ==
  /\ last.op = "set"
  /\ last.arg = Ref(CTX_1)
  /\ \E r \in Chained :
       /\ from[r].self = last.self
       /\ context(heap, r) = Ref(CTX_2)
       /\ context(heap, last.self) = Ref(CTX_1)

\* C29: chain does not read the context as a third constructor argument:
\* the instance e.chain(c) returns has the very context of e and the code,
\* severity and timestamp of e, also when that context is an object with
\* the keys code, severity, timestamp, context and cause (its values under
\* those keys go into no field of the chained instance) and when e was built
\* in the legacy call style from a bare context.
C29_ChainKeepsDisambiguation ==
  [][last'.op = "chain" =>
       LET e == last'.self
           r == last'.ret
           ctx == context(heap, e)
       IN /\ ~last'.threw
          /\ context(heap', r) = ctx
          /\ code(heap', r) = code(heap, e)
          /\ severity(heap', r) = severity(heap, e)
          /\ timestamp(heap', r) = timestamp(heap, e)
          /\ KeysOf(heap', ctx) = KeysOf(heap, ctx)
          /\ (KeysOf(heap, ctx) \cap RecognisedKeys # {}
                /\ ~Truthy(code(heap, e)))
               => /\ context(heap', r) # Supplied(heap, ctx, "context")
                  /\ code(heap', r) # Supplied(heap, ctx, "code")
                  /\ severity(heap', r) # Supplied(heap, ctx, "severity")
                  /\ timestamp(heap', r)
                       # Supplied(heap, ctx, "timestamp")]_vars

\* An error built in the legacy style from { userId } (it has no code), its
\* context replaced by an object with all five reserved keys, was chained:
\* the copy's context is that object and the copy has no code.
C29_Witness ==
  /\ last.op = "chain"
  /\ ~last.threw
  /\ context(heap, last.ret) = Ref(BAG)
  /\ KeysOf(heap, Ref(BAG)) = RecognisedKeys
  /\ code(heap, last.ret) = Undefined
  /\ severity(heap, last.ret) = Undefined
  /\ timestamp(heap, last.ret) = Undefined

====
